---- MODULE Spec2Model ----
(***************************************************************************)
(* Model of the "Pose to Rest Pose" operator (src/__init__.py).            *)
(*                                                                         *)
(* The scene (bpy.data / bpy.context) is one record `scene`; the operator  *)
(* POSE_TO_REST_OT_apply.execute is a state machine over `pc`.  Host       *)
(* primitives (bpy.ops.*, RNA setters) are modelled by what the host does; *)
(* where the host may refuse or fail, the outcome is an input chosen with  *)
(* \E in the action that makes the call.                                   *)
(***************************************************************************)
EXTENDS Integers, Sequences, FiniteSets, TLC

VARIABLES
    scene,                      \* bpy.data + bpy.context (objects, meshes, armatures, mode, ...)
    pre,                        \* the scene as it was when execute() was entered
    pc,                         \* position inside execute()
    result,                     \* return value of execute(): "NONE" while running
    reports,                    \* sequence of self.report(...) calls
    original_state,             \* execute(): original_state (<<>> = not bound)
    armature,                   \* execute(): armature
    affected_meshes,            \* execute(): affected_meshes
    driver_states,              \* execute(): driver_states
    saved_armature_modifiers,   \* execute(): saved_armature_modifiers
    mesh_index,                 \* loop position in _process_all_meshes / _restore_all_data
    processed_meshes,           \* _process_all_meshes(): processed_meshes
    original_objects,           \* _process_all_meshes(): original_objects
    shapekey_names,             \* process_shape_keys_with_pose(): shapekey_names
    shape_key_props,            \* process_shape_keys_with_pose(): shape_key_props
    shapekey_index,             \* process_shape_keys_with_pose(): loop variable
    successful_transfers,       \* process_shape_keys_with_pose(): successful_transfers
    orig_data,                  \* process_shape_keys_with_pose(): orig_data
    raised,                     \* last exception seen by a handler: [kind, mesh, key]
    trace                       \* sequence of externally visible steps of the run

vars == <<scene, pre, pc, result, reports, original_state, armature, affected_meshes,
          driver_states, saved_armature_modifiers, mesh_index, processed_meshes,
          original_objects, shapekey_names, shape_key_props, shapekey_index,
          successful_transfers, orig_data, raised, trace>>

-----------------------------------------------------------------------------
(* Bounds of the model *)

MaxKeys == 3
MaxStack == 2
InitVerts == 4

-----------------------------------------------------------------------------
(* Identities.  Every object and every mesh datablock is <<name, tag>>:    *)
(* tag -1 is a datablock of the user's scene, tag 0 the receiver proxy of  *)
(* mesh `name`, tag k >= 1 the donor proxy for shape key k.                *)

OrigTag == 0 - 1
NoneId == <<"", OrigTag>>
ObjId(name) == <<name, OrigTag>>
ProxyId(id, tag) == <<id[1], tag>>
IsProxy(id) == id[2] >= 0

MeshNames == <<"Body", "Hair">>
ArmatureNames == <<"Rig", "Rig2">>
\* iteration order of bpy.data.objects (the host keeps it sorted by name)
DataObjectsOrder == <<ObjId("Body"), ObjId("Hair"), ObjId("Rig"), ObjId("Rig2")>>

Range(s) == {s[i] : i \in DOMAIN s}
Remove(f, x) == [y \in (DOMAIN f) \ {x} |-> f[y]]
SeqRemoveAt(s, i) == [j \in 1..(Len(s) - 1) |-> IF j < i THEN s[j] ELSE s[j + 1]]
Clamp(v, lo, hi) == IF v < lo THEN lo ELSE IF v > hi THEN hi ELSE v

RECURSIVE Ascending(_)
\* the elements of a finite set of integers as an ascending sequence
Ascending(S) ==
    IF S = {} THEN <<>>
    ELSE LET m == CHOOSE x \in S : \A y \in S : x <= y
         IN <<m>> \o Ascending(S \ {m})

-----------------------------------------------------------------------------
(* Host data: shape keys.  Slider values are in units of 1e-5, the         *)
(* granularity of the host's slider_min < slider_max rule.                 *)

SliderUnit == 100000
SliderEps == 1
SliderHardMin == (0 - 10) * SliderUnit
SliderHardMax == 10 * SliderUnit
DefaultSliderMin == 0
DefaultSliderMax == SliderUnit
HostBasisName == "Basis"

\* a key block as the host creates it (BKE_keyblock_add): name, absolute shape,
\* number of elements (one per vertex of the mesh the data is taken from), defaults
NewKeyBlock(name, shape, size) ==
    [name |-> name, shape |-> shape, size |-> size, value |-> 0,
     slider_min |-> DefaultSliderMin, slider_max |-> DefaultSliderMax,
     mute |-> FALSE, interpolation |-> "KEY_LINEAR", vertex_group |-> "",
     relative_key |-> 1, custom |-> {}]

\* RNA setters of bpy.types.ShapeKey: each clamps to the range the block has now
SetValue(kb, v) == [kb EXCEPT !.value = Clamp(v, kb.slider_min, kb.slider_max)]
SetSliderMin(kb, v) ==
    [kb EXCEPT !.slider_min = Clamp(v, SliderHardMin, kb.slider_max - SliderEps)]
SetSliderMax(kb, v) ==
    [kb EXCEPT !.slider_max = Clamp(v, kb.slider_min + SliderEps, SliderHardMax)]

\* ShapeKey.name = name on block idx: the host keeps key names unique within a
\* mesh, a name another block carries gets the suffix ".001"
RenameKey(keys, idx, name) ==
    [keys EXCEPT ![idx].name =
        IF \E j \in DOMAIN keys : j # idx /\ keys[j].name = name
        THEN name \o ".001" ELSE name]

\* names of custom properties the add-on treats as private (key.startswith("_"))
StartsWithUnderscore(propname) == propname \in {"_RNA_UI"}

-----------------------------------------------------------------------------
(* scene = [objects, meshes, armatures, active, selected, scene_armature]  *)
(*   objects[id]   = [type, data, modifiers, mode]                         *)
(*   meshes[id]    = [name, verts, geom, keys, anim, drivers]              *)
(*     geom        = [key, pose]: the absolute shape of original key `key`,*)
(*                   deformed by skeleton pose `pose` ("" = not deformed)  *)
(*     keys = <<>> = obj.data.shape_keys is None                           *)
(*     anim/drivers = shape_keys.animation_data / its drivers              *)
(*   armatures[n]  = [rest, pose]                                          *)

MeshOf(w, id) == w.meshes[w.objects[id].data]
HasShapeKeys(w, id) == MeshOf(w, id).keys # <<>>
Users(w, did) == Cardinality({o \in DOMAIN w.objects : w.objects[o].data = did})

IsArmatureModAny(mod, arm) == mod.type = "ARMATURE"

IsArmatureModFor(mod, arm) == mod.type = "ARMATURE" /\ mod.object = arm

\* indices (1-based, ascending) of the modifiers of `id` bound to skeleton `arm`
ArmatureModIndices(w, id, arm) ==
    LET mods == w.objects[id].modifiers
    IN Ascending({i \in DOMAIN mods : IsArmatureModFor(mods[i], arm)})

\* context.mode as the host derives it from the active object
ContextMode(w) ==
    IF w.active = NoneId \/ w.active \notin DOMAIN w.objects THEN "OBJECT"
    ELSE LET o == w.objects[w.active]
         IN IF o.mode = "EDIT" THEN (IF o.type = "MESH" THEN "EDIT_MESH" ELSE "EDIT_ARMATURE")
            ELSE o.mode

\* bpy.ops.object.mode_set(mode=m) can run: an object is active and supports m
CanModeSet(w, m) ==
    /\ w.active # NoneId
    /\ w.active \in DOMAIN w.objects
    /\ (m = "POSE" => w.objects[w.active].type = "ARMATURE")

ModeSet(w, m) == [w EXCEPT !.objects[w.active].mode = m]

copy_object_shared(w, id, tag) ==
    [w EXCEPT !.objects = (ProxyId(id, tag) :> w.objects[id]) @@ @]

\* obj.copy(); copy.data = obj.data.copy(); link to the collection
copy_object(w, id, tag) ==
    LET new == ProxyId(id, tag)
    IN [w EXCEPT
          !.objects = (new :> [w.objects[id] EXCEPT !.data = new]) @@ @,
          !.meshes = (new :> [MeshOf(w, id) EXCEPT !.name = [base |-> new, suffix |-> 0]]) @@ @]

\* bpy.data.objects.remove(obj)
ObjectsRemove(w, id) ==
    [w EXCEPT !.objects = Remove(@, id),
              !.selected = @ \ {id},
              !.active = IF @ = id THEN NoneId ELSE @]

\* bpy.data.meshes.remove(mesh)
MeshesRemove(w, did) == [w EXCEPT !.meshes = Remove(@, did)]

delete_object_keep(w, id) == w

delete_object(w, id) ==
    IF id # NoneId /\ id \in DOMAIN w.objects
    THEN LET did == w.objects[id].data
         IN IF did \in DOMAIN w.meshes /\ Users(w, did) = 1
            THEN MeshesRemove(ObjectsRemove(w, id), did)
            ELSE ObjectsRemove(w, id)
    ELSE w

\* Removing every key but sk_keep and then that one leaves the mesh with the
\* absolute shape of key sk_keep and no shape-key container (hence no drivers).
apply_shape_key(w, id, sk_keep) ==
    LET did == w.objects[id].data
        keys == w.meshes[did].keys
    IN IF keys = <<>> THEN w
       ELSE IF ~(0 <= sk_keep /\ sk_keep < Len(keys)) THEN w
       ELSE [w EXCEPT !.meshes[did].geom = keys[sk_keep + 1].shape,
                      !.meshes[did].keys = <<>>,
                      !.meshes[did].anim = FALSE,
                      !.meshes[did].drivers = <<>>]

\* the selection set-up made before bpy.ops.object.modifier_apply
SelectOnly(w, id) == [w EXCEPT !.selected = {id}, !.active = id]

ModifierApplyAddsVertex(w, id, i, outcome) ==
    LET did == w.objects[id].data
        mod == w.objects[id].modifiers[i]
    IN [w EXCEPT !.objects[id].modifiers = SeqRemoveAt(@, i),
                 !.meshes[did].geom.pose = w.armatures[mod.object[1]].pose,
                 !.meshes[did].verts = @ + 1]

\* bpy.ops.object.modifier_apply succeeding on modifier i of `id`: the entry is
\* consumed and the base geometry takes the skeleton's current pose; a host
\* evaluation that changes topology (outcome "altered") changes the vertex count.
ModifierApply(w, id, i, outcome) ==
    LET did == w.objects[id].data
        mod == w.objects[id].modifiers[i]
    IN [w EXCEPT !.objects[id].modifiers = SeqRemoveAt(@, i),
                 !.meshes[did].geom.pose = w.armatures[mod.object[1]].pose,
                 !.meshes[did].verts = IF outcome = "altered" THEN @ + 1 ELSE @]

ApplyOutcomes == {"ok", "altered", "fail"}

apply_armature_modifier_only_skip(w, id, arm, outcome) ==
    IF ArmatureModIndices(w, id, arm) = <<>> THEN w ELSE SelectOnly(w, id)

\* apply_armature_modifier_only: state after the call; "fail" is the state in
\* which the RuntimeError of modifier_apply is re-raised
apply_armature_modifier_only(w, id, arm, outcome) ==
    LET idx == ArmatureModIndices(w, id, arm)
    IN IF idx = <<>> THEN w
       ELSE IF outcome = "fail" THEN SelectOnly(w, id)
       ELSE ModifierApply(SelectOnly(w, id), id, idx[1], outcome)

ApplyRaises(w, id, arm, outcome) ==
    ArmatureModIndices(w, id, arm) # <<>> /\ outcome = "fail"

\* the evaluation of the deformer changed the topology of `id`
ApplyAlters(w, id, arm, outcome) ==
    ArmatureModIndices(w, id, arm) # <<>> /\ outcome = "altered"

JoinOutcomes == {"ok", "nokey"}

\* add_objs_shapekeys(destination, [src]): bpy.ops.object.join_shapes appends one
\* key named after the source object holding the source's geometry, creating the
\* basis key first when the destination has none; "nokey": the host adds nothing.
add_objs_shapekeys(w, dest, src, outcome) ==
    LET did == w.objects[dest].data
        m == w.meshes[did]
        sel == [w EXCEPT !.selected = {src}, !.active = dest]
        withBasis == IF m.keys = <<>> THEN <<NewKeyBlock(HostBasisName, m.geom, m.verts)>>
                     ELSE m.keys
    IN IF outcome = "ok"
       THEN [sel EXCEPT !.meshes[did].keys =
                           Append(withBasis, NewKeyBlock(src[1], MeshOf(w, src).geom,
                                                         MeshOf(w, src).verts))]
       ELSE sel

\* validate_vertex_count_compatibility raises ValueError
VertexCountMismatch(w, base_obj, shapekey_obj) ==
    MeshOf(w, base_obj).verts # MeshOf(w, shapekey_obj).verts

\* validate_shape_key_transfer raises ValueError
TransferInvalid(w, receiver, expected_shapekey_index) ==
    \/ MeshOf(w, receiver).keys = <<>>
    \/ Len(MeshOf(w, receiver).keys) - 1 # expected_shapekey_index

-----------------------------------------------------------------------------
(* ShapeKeyManager *)

\* one entry of shape_key_data; relative_key is stored by name
StoreKey(keys, kb) ==
    [name |-> kb.name, value |-> kb.value,
     slider_min |-> kb.slider_min, slider_max |-> kb.slider_max,
     mute |-> kb.mute, interpolation |-> kb.interpolation,
     relative_key |-> keys[kb.relative_key].name,
     vertex_group |-> kb.vertex_group,
     custom_properties |-> {p \in kb.custom : ~StartsWithUnderscore(p[1])}]

\* <<>> models both None and the empty list (both are falsy where it is used)
store_properties(w, id) ==
    LET keys == MeshOf(w, id).keys
    IN [i \in 1..Len(keys) |-> StoreKey(keys, keys[i])]

\* index of the first key block named `name`, 0 when there is none
RECURSIVE FindKeyIndex(_, _, _)
FindKeyIndex(keys, name, i) ==
    IF i > Len(keys) THEN 0
    ELSE IF keys[i].name = name THEN i
    ELSE FindKeyIndex(keys, name, i + 1)

\* sk[key] = value for every stored custom property
SetCustom(kb, props) ==
    [kb EXCEPT !.custom = {p \in @ : \A q \in props : q[1] # p[1]} \cup props]

\* lines 243-248: value, slider_min, slider_max, mute, interpolation, vertex_group,
\* assigned in this order through the host's setters
RestoreKeyFields(kb, sk_data) ==
    [SetSliderMax(SetSliderMin(SetValue(kb, sk_data.value), sk_data.slider_min),
                  sk_data.slider_max)
        EXCEPT !.mute = sk_data.mute,
               !.interpolation = sk_data.interpolation,
               !.vertex_group = sk_data.vertex_group]

RestoreRelativeKeyNone(keys, kb, sk_data) == kb

\* lines 250-255: relative key looked up by name; left alone when not found
RestoreRelativeKey(keys, kb, sk_data) ==
    LET j == FindKeyIndex(keys, sk_data.relative_key, 1)
    IN IF sk_data.relative_key # "" /\ j # 0 THEN [kb EXCEPT !.relative_key = j] ELSE kb

CustomOutcomes == {"ok", "caught", "raise"}

\* restore_properties from entry i on.  cp[i] is what the host does with the
\* custom-property writes of entry i: "ok", "caught" (TypeError/AttributeError,
\* logged) or "raise" (any other exception, which leaves restore_properties).
\* Result: [keys, raised].
RECURSIVE RestoreFrom(_, _, _, _)
RestoreFrom(keys, shape_key_data, cp, i) ==
    IF i > Len(shape_key_data) THEN [keys |-> keys, raised |-> FALSE]
    ELSE IF i > Len(keys) THEN RestoreFrom(keys, shape_key_data, cp, i + 1)
    ELSE LET sk_data == shape_key_data[i]
             sk == RestoreRelativeKey(keys, RestoreKeyFields(keys[i], sk_data), sk_data)
             hasCustom == sk_data.custom_properties # {}
         IN IF hasCustom /\ cp[i] = "raise"
            THEN [keys |-> [keys EXCEPT ![i] = sk], raised |-> TRUE]
            ELSE IF hasCustom /\ cp[i] = "ok"
            THEN RestoreFrom([keys EXCEPT ![i] = SetCustom(sk, sk_data.custom_properties)],
                             shape_key_data, cp, i + 1)
            ELSE RestoreFrom([keys EXCEPT ![i] = sk], shape_key_data, cp, i + 1)

restore_properties(w, id, shape_key_data, cp) ==
    IF shape_key_data = <<>> \/ ~HasShapeKeys(w, id)
    THEN [scene |-> w, raised |-> FALSE]
    ELSE LET r == RestoreFrom(MeshOf(w, id).keys, shape_key_data, cp, 1)
         IN [scene |-> [w EXCEPT !.meshes[w.objects[id].data].keys = r.keys],
             raised |-> r.raised]

\* the outcome vectors that differ: only entries with custom properties count
CustomOutcomeVectors(shape_key_data) ==
    {cp \in [1..Len(shape_key_data) -> CustomOutcomes] :
        \A i \in 1..Len(shape_key_data) :
            shape_key_data[i].custom_properties = {} => cp[i] = "ok"}

-----------------------------------------------------------------------------
(* DriverManager *)

check_drivers_exist(w, id) ==
    LET m == MeshOf(w, id)
    IN m.keys # <<>> /\ m.anim /\ m.drivers # <<>>

DriverOutcomes == {"ok", "fail"}

\* restore_drivers(obj, drivers_existed, original_obj).  Every failure inside the
\* try block is caught and logged; the state is what had been done until then.
restore_drivers(w, obj, drivers_existed, original_obj, outcome) ==
    IF ~drivers_existed \/ ~HasShapeKeys(w, original_obj) THEN w
    ELSE IF ~HasShapeKeys(w, obj) THEN w
    ELSE LET did == w.objects[obj].data
             \* animation_data_clear() when present, then animation_data_create()
             w1 == [w EXCEPT !.meshes[did].anim = TRUE, !.meshes[did].drivers = <<>>]
             src == MeshOf(w1, original_obj)
         IN IF outcome = "fail" \/ ~src.anim THEN w1
            ELSE LET copied == MeshOf(w1, obj).drivers \o src.drivers
                     fixed == [i \in 1..Len(copied) |->
                                  IF copied[i].target = original_obj
                                  THEN [copied[i] EXCEPT !.target = obj]
                                  ELSE copied[i]]
                 IN [w1 EXCEPT !.meshes[did].drivers = fixed]

-----------------------------------------------------------------------------
(* ModifierManager *)

\* <<>> models None, <<d>> the settings dictionary d (index is 0-based as in the source)
store_armature_modifier(w, id, arm) ==
    LET idx == ArmatureModIndices(w, id, arm)
    IN IF idx = <<>> THEN <<>>
       ELSE LET mod == w.objects[id].modifiers[idx[1]]
            IN <<[name |-> mod.name, object |-> mod.object,
                  settings |-> mod.settings, index |-> idx[1] - 1]>>

\* bpy.ops.object.modifier_move_up n times on the last entry of the stack
RECURSIVE MoveLastUp(_, _)
MoveLastUp(mods, n) ==
    IF n <= 0 \/ Len(mods) < 2 THEN mods
    ELSE LET k == Len(mods)
             head == SubSeq(mods, 1, k - 2)
         IN MoveLastUp(head \o <<mods[k]>>, n - 1) \o <<mods[k - 1]>>

MovesNeededShort(w, id, mod_data) == Len(w.objects[id].modifiers) - mod_data[1].index - 1

\* moves_needed = current_index - target_index, current_index being the length
\* of the stack before the new entry was appended
MovesNeeded(w, id, mod_data) == Len(w.objects[id].modifiers) - mod_data[1].index

create_armature_modifier_none(w, id, mod_data, moved) == w

\* create_armature_modifier; `moved` is how many modifier_move_up calls succeeded
\* before one raised RuntimeError (moved = moves_needed when none did)
create_armature_modifier(w, id, mod_data, moved) ==
    IF mod_data = <<>> THEN w
    ELSE LET d == mod_data[1]
             mod == [type |-> "ARMATURE", object |-> d.object, name |-> d.name,
                     settings |-> d.settings]
             appended == Append(w.objects[id].modifiers, mod)
         IN [w EXCEPT !.objects[id].modifiers = MoveLastUp(appended, moved),
                      !.active = id,
                      !.selected = @ \cup {id}]

-----------------------------------------------------------------------------
(* Compatibility validation (POSE_TO_REST_OT_apply) *)

deformation_mods ==
    {"MESH_DEFORM", "LATTICE", "CLOTH", "SOFT_BODY", "MESH_CACHE", "SURFACE_DEFORM",
     "VOLUME_DEFORM", "NODES", "DISPLACE", "WAVE", "SHRINKWRAP", "SIMPLE_DEFORM"}

has_modifier_order_issue_anywhere(w, id, arm) ==
    LET idx == ArmatureModIndices(w, id, arm)
        mods == w.objects[id].modifiers
    IN IF idx = <<>> THEN FALSE
       ELSE \E i \in DOMAIN mods : mods[i].type \in deformation_mods

has_modifier_order_issue(w, id, arm) ==
    LET idx == ArmatureModIndices(w, id, arm)
        mods == w.objects[id].modifiers
    IN IF idx = <<>> THEN FALSE
       ELSE \E i \in 1..(idx[1] - 1) : mods[i].type \in deformation_mods

\* context.active_object if it is an armature, else scene.pose_to_rest_armature
get_armature(w) ==
    IF w.active # NoneId /\ w.objects[w.active].type = "ARMATURE"
    THEN w.active
    ELSE w.scene_armature

poll(w) ==
    \/ w.scene_armature # NoneId
    \/ (w.active # NoneId /\ w.objects[w.active].type = "ARMATURE")

armature_count_capped(w, id, arm) ==
    IF ArmatureModIndices(w, id, arm) = <<>> THEN 0 ELSE 1

armature_count_any_target(w, id, arm) ==
    Cardinality({i \in DOMAIN w.objects[id].modifiers :
                    w.objects[id].modifiers[i].type = "ARMATURE"})

\* lines 414-418: number of modifiers of the object bound to the skeleton
armature_count(w, id, arm) == Len(ArmatureModIndices(w, id, arm))

\* validate_objects from position i of bpy.data.objects on.
\* Result: [raised ("" = returned), names (of the error message), affected]
RECURSIVE ValidateFrom(_, _, _, _, _)
ValidateFrom(w, arm, i, affected, warning) ==
    IF i > Len(DataObjectsOrder)
    THEN IF warning # <<>>
         THEN [raised |-> "DeformerOrder", names |-> warning, affected |-> <<>>]
         ELSE [raised |-> "", names |-> <<>>, affected |-> affected]
    ELSE LET id == DataObjectsOrder[i]
         IN IF id \notin DOMAIN w.objects \/ w.objects[id].type # "MESH"
            THEN ValidateFrom(w, arm, i + 1, affected, warning)
            ELSE LET count == armature_count(w, id, arm)
                 IN IF count > 1
                    THEN [raised |-> "MultipleDeformers", names |-> <<id[1]>>,
                          affected |-> <<>>]
                    ELSE IF count = 1
                    THEN ValidateFrom(w, arm, i + 1, Append(affected, id),
                                      IF has_modifier_order_issue(w, id, arm)
                                      THEN Append(warning, id[1]) ELSE warning)
                    ELSE ValidateFrom(w, arm, i + 1, affected, warning)

validate_objects_first_only(w, arm) ==
    LET r == ValidateFrom(w, arm, 1, <<>>, <<>>)
    IN IF r.raised = "DeformerOrder" THEN [r EXCEPT !.names = <<r.names[1]>>] ELSE r

validate_objects(w, arm) == ValidateFrom(w, arm, 1, <<>>, <<>>)

-----------------------------------------------------------------------------
(* Scenes the operator is started on *)

KeyNamePool == <<"Basis", "Smile", "Frown", "Blink", "Pout">>
BasisNames == {"Basis", "Base"}
\* a mesh whose basis key was renamed and whose second key carries the name the
\* host gives a basis key
ClashBasisName == "Rest"
RigId == ObjId("Rig")
Rig2Id == ObjId("Rig2")

ModKinds ==
    {[type |-> "ARMATURE", object |-> RigId, settings |-> "preserve_volume"],
     [type |-> "ARMATURE", object |-> Rig2Id, settings |-> "preserve_volume"],
     [type |-> "LATTICE", object |-> NoneId, settings |-> "default"],
     [type |-> "SUBSURF", object |-> NoneId, settings |-> "default"]}

ArmatureKind == [type |-> "ARMATURE", object |-> RigId, settings |-> "preserve_volume"]
SubsurfKind == [type |-> "SUBSURF", object |-> NoneId, settings |-> "default"]

AllStacks == UNION {[1..k -> ModKinds] : k \in 0..MaxStack}

Rig2Kind == [type |-> "ARMATURE", object |-> Rig2Id, settings |-> "preserve_volume"]

\* every modifier type has_modifier_order_issue tells apart, one type it does
\* not, and deformers bound to either skeleton
OrderKinds ==
    {[type |-> t, object |-> NoneId, settings |-> "default"] : t \in deformation_mods}
    \cup {SubsurfKind, ArmatureKind, Rig2Kind}

\* stacks of a deformer bound to the target and subdivision modifiers, with one
\* entry replaced by a modifier of any kind
OrderStacks ==
    LET plain == UNION {[1..k -> {ArmatureKind, SubsurfKind}] : k \in 0..MaxStack}
    IN {[st EXCEPT ![i] = kind] : st \in plain \ {<<>>}, i \in 1..MaxStack, kind \in OrderKinds}

\* slider settings the host accepts: slider_min < slider_max, value within them
SliderProfiles ==
    {p \in [value : {0 - SliderUnit, 0, SliderUnit \div 2, (3 * SliderUnit) \div 2, 2 * SliderUnit},
            slider_min : {0 - SliderUnit, 0, (3 * SliderUnit) \div 2},
            slider_max : {SliderUnit, 2 * SliderUnit}] :
        p.slider_min < p.slider_max /\ p.slider_min <= p.value /\ p.value <= p.slider_max}

FlagProfiles ==
    {[mute |-> FALSE, interpolation |-> "KEY_LINEAR", vertex_group |-> ""],
     [mute |-> TRUE, interpolation |-> "KEY_CARDINAL", vertex_group |-> "mask"]}

DefaultSliders == [value |-> 0, slider_min |-> DefaultSliderMin, slider_max |-> DefaultSliderMax]
DefaultFlags == [mute |-> FALSE, interpolation |-> "KEY_LINEAR", vertex_group |-> ""]

\* a mesh configuration: modifier stack, number of keys, name of the basis key,
\* settings of the last key, its custom properties and relative key, and drivers
\* ("" none, "self": variable target is the mesh, "rig": target is the skeleton)
Config(stack, nkeys, basis, sliders, flags, custom, rel, drivers) ==
    [stack |-> stack, nkeys |-> nkeys, basis |-> basis, sliders |-> sliders,
     flags |-> flags, custom |-> custom, rel |-> rel, drivers |-> drivers]

PlainConfig(stack, nkeys) ==
    Config(stack, nkeys, "Basis", DefaultSliders, DefaultFlags, {}, 1, "")

ValidationConfigs == {PlainConfig(st, 0) : st \in AllStacks}

PipelineStacks == {<<ArmatureKind>>, <<ArmatureKind, SubsurfKind>>}

PipelineConfigs ==
    {PlainConfig(st, 0) : st \in PipelineStacks}
    \cup {Config(st, n, b, DefaultSliders, DefaultFlags, {}, 1, "") :
             st \in PipelineStacks, n \in 1..MaxKeys, b \in BasisNames}
    \cup {Config(st, n, "Basis", DefaultSliders, DefaultFlags, {}, 1, d) :
             st \in PipelineStacks, n \in 1..MaxKeys, d \in {"self", "rig"}}
    \cup {Config(st, n, "Basis", DefaultSliders, DefaultFlags,
                 {<<"note", 7>>, <<"_RNA_UI", 1>>}, IF n > 2 THEN n - 1 ELSE 1, "") :
             st \in PipelineStacks, n \in 1..MaxKeys}

MetaConfigs ==
    {Config(<<ArmatureKind>>, n, "Basis", s, f, {}, 1, "") :
        n \in 1..MaxKeys, s \in SliderProfiles, f \in FlagProfiles}

NameClashConfigs ==
    {Config(<<ArmatureKind>>, n, ClashBasisName, DefaultSliders, DefaultFlags, {}, 1, "") :
        n \in 2..MaxKeys}

SmallConfigs ==
    {PlainConfig(<<>>, 2), PlainConfig(<<ArmatureKind>>, 0), PlainConfig(<<ArmatureKind>>, 2)}

OrderConfigs == {PlainConfig(st, 0) : st \in OrderStacks}

\* a mesh with shape keys and a driver, deformed by the other skeleton only
OtherRigConfig == Config(<<Rig2Kind>>, 2, "Basis", DefaultSliders, DefaultFlags, {}, 1, "rig")

ContextConfigs == SmallConfigs \cup {OtherRigConfig}

\* the context the operator is invoked in: Rig active in pose mode
DefaultContext ==
    [active |-> RigId, mode |-> "POSE", scene_armature |-> NoneId]

Contexts ==
    {c \in [active : {RigId, Rig2Id, ObjId("Body"), NoneId},
            mode : {"OBJECT", "POSE", "EDIT"},
            scene_armature : {NoneId, RigId}] :
        /\ (c.active = NoneId => c.mode = "OBJECT")
        /\ (c.mode = "POSE" => c.active \in {RigId, Rig2Id})
        /\ (c.scene_armature # NoneId \/ c.active \in {RigId, Rig2Id})}

InitKeyName(cfg, j) ==
    IF j = 1 THEN cfg.basis
    ELSE IF j = 2 /\ cfg.basis = ClashBasisName THEN HostBasisName
    ELSE KeyNamePool[j]

InitKeys(cfg) ==
    [j \in 1..cfg.nkeys |->
        LET kb == NewKeyBlock(InitKeyName(cfg, j), [key |-> j - 1, pose |-> ""], InitVerts)
        IN IF j = cfg.nkeys
           THEN [kb EXCEPT !.value = cfg.sliders.value,
                           !.slider_min = cfg.sliders.slider_min,
                           !.slider_max = cfg.sliders.slider_max,
                           !.mute = cfg.flags.mute,
                           !.interpolation = cfg.flags.interpolation,
                           !.vertex_group = cfg.flags.vertex_group,
                           !.custom = cfg.custom,
                           !.relative_key = cfg.rel]
           ELSE kb]

InitDrivers(cfg, id) ==
    IF cfg.drivers = "" \/ cfg.nkeys = 0 THEN <<>>
    ELSE <<[data_path |-> InitKeyName(cfg, cfg.nkeys),
            target |-> IF cfg.drivers = "self" THEN id ELSE RigId]>>

InitMesh(cfg, id) ==
    [name |-> [base |-> id, suffix |-> 0], verts |-> InitVerts,
     geom |-> [key |-> 0, pose |-> ""], keys |-> InitKeys(cfg),
     anim |-> InitDrivers(cfg, id) # <<>>, drivers |-> InitDrivers(cfg, id)]

InitModifiers(cfg) ==
    [i \in 1..Len(cfg.stack) |->
        [type |-> cfg.stack[i].type, object |-> cfg.stack[i].object,
         name |-> <<cfg.stack[i].type, i>>, settings |-> cfg.stack[i].settings]]

BuildScene(cfgs, ctx) ==
    LET meshIds == {ObjId(MeshNames[i]) : i \in DOMAIN MeshNames}
        armIds == {ObjId(ArmatureNames[i]) : i \in DOMAIN ArmatureNames}
    IN [objects |->
            [id \in meshIds \cup armIds |->
                IF id \in meshIds
                THEN [type |-> "MESH", data |-> id, modifiers |-> InitModifiers(cfgs[id[1]]),
                      mode |-> IF id = ctx.active THEN ctx.mode ELSE "OBJECT"]
                ELSE [type |-> "ARMATURE", data |-> id, modifiers |-> <<>>,
                      mode |-> IF id = ctx.active THEN ctx.mode ELSE "OBJECT"]],
        meshes |-> [id \in meshIds |-> InitMesh(cfgs[id[1]], id)],
        armatures |-> [n \in Range(ArmatureNames) |-> [rest |-> "R0", pose |-> "P1"]],
        active |-> ctx.active,
        selected |-> IF ctx.active = NoneId THEN {} ELSE {ctx.active},
        scene_armature |-> ctx.scene_armature]

MeshNameSet == Range(MeshNames)

\* the scenes of a run: five families of mesh configurations and contexts
InitScene(w) ==
    \/ \E cfgs \in [MeshNameSet -> ValidationConfigs] : w = BuildScene(cfgs, DefaultContext)
    \/ \E cfgs \in [MeshNameSet -> PipelineConfigs] : w = BuildScene(cfgs, DefaultContext)
    \/ \E cfgs \in {c \in [MeshNameSet -> MetaConfigs \cup NameClashConfigs \cup SmallConfigs] :
                       /\ c[MeshNames[1]] \in MetaConfigs \cup NameClashConfigs
                       /\ \A i \in 2..Len(MeshNames) : c[MeshNames[i]] \in SmallConfigs} :
          w = BuildScene(cfgs, DefaultContext)
    \/ \E cfgs \in [MeshNameSet -> ContextConfigs], ctx \in Contexts : w = BuildScene(cfgs, ctx)
    \/ \E cfg \in OrderConfigs :
          w = BuildScene([n \in MeshNameSet |->
                             IF n = MeshNames[1] THEN cfg ELSE PlainConfig(<<>>, 0)],
                         DefaultContext)

NoRaise == [kind |-> "", mesh |-> NoneId, key |-> ""]

Init ==
    /\ InitScene(scene)
    /\ pre = scene
    /\ pc = "start"
    /\ result = "NONE"
    /\ reports = <<>>
    /\ original_state = <<>>
    /\ armature = NoneId
    /\ affected_meshes = <<>>
    /\ driver_states = <<>>
    /\ saved_armature_modifiers = <<>>
    /\ mesh_index = 0
    /\ processed_meshes = <<>>
    /\ original_objects = <<>>
    /\ shapekey_names = <<>>
    /\ shape_key_props = <<>>
    /\ shapekey_index = 0
    /\ successful_transfers = 0
    /\ orig_data = NoneId
    /\ raised = NoRaise
    /\ trace = <<>>

-----------------------------------------------------------------------------
(* execute(): shared exits *)

runVars == <<original_state, armature, affected_meshes, driver_states,
             saved_armature_modifiers>>
loopVars == <<mesh_index, processed_meshes, original_objects>>
pipeVars == <<shapekey_names, shape_key_props, shapekey_index, successful_transfers,
              orig_data>>

Report(level, kind, names) == [level |-> level, kind |-> kind, names |-> names]
Event(ev, obj) == [ev |-> ev, obj |-> obj]
Exc(kind, mesh, key) == [kind |-> kind, mesh |-> mesh, key |-> key]

\* what modifier_apply did to the topology, as far as the run's record goes
AlteredEvents(w, id, arm, outcome) ==
    IF ApplyAlters(w, id, arm, outcome) THEN <<Event("topology_altered", id)>> ELSE <<>>

ModeSetOutcomes == {"ok", "fail"}

\* _handle_error_cleanup: everything is inside one try block, so the first host
\* call that raises ends it.  ms = "fail": mode_set(mode="OBJECT") raises.
handle_error_cleanup(w, st, ms) ==
    IF ms = "fail" THEN w
    ELSE LET w1 == IF CanModeSet(w, "OBJECT") THEN ModeSet(w, "OBJECT") ELSE w
         IN IF st.mode = "POSE" /\ ~CanModeSet(w1, "POSE") THEN w1
            ELSE [(IF st.mode = "POSE" THEN ModeSet(w1, "POSE") ELSE w1)
                     EXCEPT !.active = st.active]

\* return {"CANCELLED"} after self.report(level, ...)
Cancelled(w, level, kind, names, exc, evs) ==
    /\ scene' = w
    /\ reports' = Append(reports, Report(level, kind, names))
    /\ result' = "CANCELLED"
    /\ pc' = "done"
    /\ raised' = exc
    /\ trace' = trace \o evs

\* execute(), "except Exception": report, _handle_error_cleanup, CANCELLED
Unexpected(w, exc, ms, evs) ==
    Cancelled(handle_error_cleanup(w, original_state[1], ms), "ERROR", "ErrorOccurred",
              <<>>, exc, evs \o <<Event("error_cleanup", NoneId)>>)

MeshFailedProceeds(w, obj, exc, evs) ==
    /\ scene' = w
    /\ reports' = Append(reports, Report("ERROR", "ProcessFailed", <<obj[1]>>))
    /\ result' = IF processed_meshes = <<>> THEN "CANCELLED" ELSE result
    /\ pc' = IF processed_meshes = <<>> THEN "done" ELSE "pose"
    /\ raised' = exc
    /\ trace' = trace \o evs \o <<Event("bake_failed", obj)>>
    /\ UNCHANGED loopVars

\* process_shape_keys_with_pose returned (False, None): _process_all_meshes
\* reports and returns (None, None), execute returns CANCELLED
MeshFailed(w, obj, exc, evs) ==
    /\ Cancelled(w, "ERROR", "ProcessFailed", <<obj[1]>>, exc,
                 evs \o <<Event("bake_failed", obj)>>)
    /\ UNCHANGED loopVars

MeshSucceededTwice(w, obj, evs) ==
    /\ scene' = w
    /\ processed_meshes' = processed_meshes \o <<obj, obj>>
    /\ original_objects' = (obj :> obj) @@ original_objects
    /\ mesh_index' = IF mesh_index < Len(affected_meshes) THEN mesh_index + 1 ELSE 1
    /\ pc' = IF mesh_index < Len(affected_meshes) THEN "mesh" ELSE "pose"
    /\ trace' = trace \o evs \o <<Event("bake_done", obj)>>
    /\ UNCHANGED <<result, reports, raised>>

\* process_shape_keys_with_pose returned success: next mesh, or step 4
MeshSucceeded(w, obj, evs) ==
    /\ scene' = w
    /\ processed_meshes' = Append(processed_meshes, obj)
    /\ original_objects' = (obj :> obj) @@ original_objects
    /\ mesh_index' = IF mesh_index < Len(affected_meshes) THEN mesh_index + 1 ELSE 1
    /\ pc' = IF mesh_index < Len(affected_meshes) THEN "mesh" ELSE "pose"
    /\ trace' = trace \o evs \o <<Event("bake_done", obj)>>
    /\ UNCHANGED <<result, reports, raised>>

CleanupDonorOnly(w, donor, receiver) == delete_object(w, donor)

\* the handlers a failing donor iteration runs through: lines 533-544 delete the
\* donor and re-raise, lines 581-589 delete the receiver
CleanupAfterDonorError(w, donor, receiver) ==
    delete_object(delete_object(w, donor), receiver)

CurrentMesh == affected_meshes[mesh_index]
ReceiverId == ProxyId(CurrentMesh, 0)
DonorId == ProxyId(CurrentMesh, shapekey_index)

-----------------------------------------------------------------------------
(* Step 1 and 2: _initialize_and_validate, _collect_and_store_data *)

InitializeAndValidate ==
    /\ pc = "start"
    /\ LET arm == get_armature(scene)
           v == validate_objects(scene, arm)
       IN /\ original_state' = <<[mode |-> ContextMode(scene), active |-> scene.active]>>
          /\ IF arm = NoneId
             THEN /\ Cancelled(scene, "ERROR", "NoArmature", <<>>, NoRaise, <<>>)
                  /\ UNCHANGED <<armature, affected_meshes>>
             ELSE IF v.raised # ""
             THEN /\ Cancelled(scene, "ERROR", v.raised, v.names,
                               Exc(v.raised, NoneId, ""), <<>>)
                  /\ UNCHANGED <<armature, affected_meshes>>
             ELSE IF v.affected = <<>>
             THEN /\ Cancelled(scene, "WARNING", "NoMeshes", <<>>, NoRaise, <<>>)
                  /\ UNCHANGED <<armature, affected_meshes>>
             ELSE /\ armature' = arm
                  /\ affected_meshes' = v.affected
                  /\ pc' = "collect"
                  /\ trace' = Append(trace, Event("validated", arm))
                  /\ UNCHANGED <<scene, reports, result, raised>>
    /\ UNCHANGED <<pre, driver_states, saved_armature_modifiers, loopVars, pipeVars>>

CollectAndStoreData ==
    /\ pc = "collect"
    /\ driver_states' = [id \in Range(affected_meshes) |-> check_drivers_exist(scene, id)]
    /\ saved_armature_modifiers' =
           [id \in Range(affected_meshes) |-> store_armature_modifier(scene, id, armature)]
    /\ mesh_index' = 1
    /\ pc' = "mesh"
    /\ UNCHANGED <<scene, pre, result, reports, original_state, armature, affected_meshes,
                   processed_meshes, original_objects, pipeVars, raised, trace>>

-----------------------------------------------------------------------------
(* Step 3: process_shape_keys_with_pose for affected_meshes[mesh_index] *)

\* lines 474-477; a RuntimeError of modifier_apply is outside every try block of
\* the bake and reaches execute()
ProcessNoShapeKeys ==
    /\ pc = "mesh"
    /\ ~HasShapeKeys(scene, CurrentMesh)
    /\ \E outcome \in ApplyOutcomes, ms \in ModeSetOutcomes :
          LET w == apply_armature_modifier_only(scene, CurrentMesh, armature, outcome)
          IN IF ApplyRaises(scene, CurrentMesh, armature, outcome)
             THEN /\ Unexpected(w, Exc("ApplyFailed", CurrentMesh, ""), ms,
                                <<Event("bake_begin", CurrentMesh)>>)
                  /\ UNCHANGED loopVars
             ELSE /\ ms = "ok"
                  /\ MeshSucceeded(w, CurrentMesh,
                                   <<Event("bake_begin", CurrentMesh),
                                     Event("apply_direct", CurrentMesh)>>
                                   \o AlteredEvents(scene, CurrentMesh, armature, outcome))
    /\ UNCHANGED <<pre, runVars, pipeVars>>

\* lines 479-495: snapshot, receiver = copy, collapse to the basis, bake the deformer
CreateReceiver ==
    /\ pc = "mesh"
    /\ HasShapeKeys(scene, CurrentMesh)
    /\ LET keys == MeshOf(scene, CurrentMesh).keys
           w1 == copy_object(scene, CurrentMesh, 0)
           w2 == apply_shape_key(w1, ReceiverId, 0)
       IN /\ shapekey_names' = [i \in 1..Len(keys) |-> keys[i].name]
          /\ shape_key_props' = store_properties(scene, CurrentMesh)
          /\ successful_transfers' = 0
          /\ shapekey_index' = 1
          /\ orig_data' = NoneId
          /\ \E outcome \in ApplyOutcomes :
                LET w3 == apply_armature_modifier_only(w2, ReceiverId, armature, outcome)
                    evs == <<Event("bake_begin", CurrentMesh), Event("receiver", CurrentMesh)>>
                           \o AlteredEvents(w2, ReceiverId, armature, outcome)
                IN IF ApplyRaises(w2, ReceiverId, armature, outcome)
                   THEN MeshFailed(delete_object(w3, ReceiverId), CurrentMesh,
                                   Exc("ApplyFailed", CurrentMesh, ""), evs)
                   ELSE /\ scene' = w3
                        /\ pc' = IF Len(keys) > 1 THEN "donor_bake" ELSE "commit_replace"
                        /\ trace' = trace \o evs
                        /\ UNCHANGED <<result, reports, raised, loopVars>>
    /\ UNCHANGED <<pre, runVars>>

\* lines 505-508: donor = copy, collapse to key shapekey_index, bake the deformer
DonorBake ==
    /\ pc = "donor_bake"
    /\ LET w1 == copy_object(scene, CurrentMesh, shapekey_index)
           w2 == apply_shape_key(w1, DonorId, shapekey_index)
           key == shapekey_names[shapekey_index + 1]
       IN \E outcome \in ApplyOutcomes :
             LET w3 == apply_armature_modifier_only(w2, DonorId, armature, outcome)
             IN IF ApplyRaises(w2, DonorId, armature, outcome)
                THEN MeshFailed(CleanupAfterDonorError(w3, DonorId, ReceiverId),
                                CurrentMesh, Exc("ApplyFailed", CurrentMesh, key),
                                <<Event("donor", DonorId)>>)
                ELSE /\ scene' = w3
                     /\ pc' = "donor_transfer"
                     /\ trace' = Append(trace, Event("donor", DonorId))
                                    \o AlteredEvents(w2, DonorId, armature, outcome)
                     /\ UNCHANGED <<result, reports, raised, loopVars>>
    /\ UNCHANGED <<pre, runVars, pipeVars>>

\* lines 510-531 and the handlers of lines 533-544, 581-589
DonorTransfer ==
    /\ pc = "donor_transfer"
    /\ LET key == shapekey_names[shapekey_index + 1]
           num_shapekeys == Len(shapekey_names)
           cleaned(w) == CleanupAfterDonorError(w, DonorId, ReceiverId)
       IN IF VertexCountMismatch(scene, ReceiverId, DonorId)
          THEN /\ MeshFailed(cleaned(scene), CurrentMesh,
                             Exc("VertexCountMismatch", CurrentMesh, key), <<>>)
               /\ UNCHANGED pipeVars
          ELSE \E jo \in JoinOutcomes :
                 LET w1 == add_objs_shapekeys(scene, ReceiverId, DonorId, jo)
                     rd == w1.objects[ReceiverId].data
                     w2 == [w1 EXCEPT !.meshes[rd].keys =
                                         RenameKey(@, shapekey_index + 1, key)]
                 IN IF TransferInvalid(w1, ReceiverId, shapekey_index)
                    THEN /\ MeshFailed(cleaned(w1), CurrentMesh,
                                       Exc("TransferVerification", CurrentMesh, key),
                                       <<Event("join", DonorId)>>)
                         /\ UNCHANGED pipeVars
                    ELSE /\ scene' = delete_object(w2, DonorId)
                         /\ successful_transfers' = successful_transfers + 1
                         /\ shapekey_index' = shapekey_index + 1
                         /\ pc' = IF shapekey_index + 1 < num_shapekeys
                                  THEN "donor_bake" ELSE "commit_replace"
                         /\ trace' = Append(trace, Event("join", DonorId))
                         /\ UNCHANGED <<result, reports, raised, loopVars, shapekey_names,
                                        shape_key_props, orig_data>>
    /\ UNCHANGED <<pre, runVars>>

ReplaceDataKeepModifiers(w, obj, receiver, arm) ==
    LET old == w.objects[obj].data
        new == w.objects[receiver].data
    IN [w EXCEPT !.objects[obj].data = new,
                 !.meshes[new].name = [base |-> w.meshes[old].name.base,
                                       suffix |-> w.meshes[old].name.suffix + 1]]

\* lines 546-558: drop the skeletal deformer entries, take over the receiver's data
ReplaceData(w, obj, receiver, arm) ==
    LET old == w.objects[obj].data
        new == w.objects[receiver].data
        mods == w.objects[obj].modifiers
        kept == Ascending({i \in DOMAIN mods : ~IsArmatureModFor(mods[i], arm)})
    IN [w EXCEPT !.objects[obj].modifiers = [i \in 1..Len(kept) |-> mods[kept[i]]],
                 !.objects[obj].data = new,
                 \* the original datablock still carries the name: the host appends a suffix
                 !.meshes[new].name = [base |-> w.meshes[old].name.base,
                                       suffix |-> w.meshes[old].name.suffix + 1]]

CommitReplace ==
    /\ pc = "commit_replace"
    /\ orig_data' = scene.objects[CurrentMesh].data
    /\ scene' = ReplaceData(scene, CurrentMesh, ReceiverId, armature)
    /\ pc' = "commit_restore"
    /\ trace' = Append(trace, Event("replace", CurrentMesh))
    /\ UNCHANGED <<pre, result, reports, raised, runVars, loopVars, shapekey_names,
                   shape_key_props, shapekey_index, successful_transfers>>

\* lines 560-579, and lines 581-589 when restore_properties raises
CommitRestore ==
    /\ pc = "commit_restore"
    /\ \E cp \in CustomOutcomeVectors(shape_key_props) :
          LET r == restore_properties(scene, CurrentMesh, shape_key_props, cp)
          IN IF r.raised
             THEN MeshFailed(delete_object(r.scene, ReceiverId), CurrentMesh,
                             Exc("RestoreFailed", CurrentMesh, ""),
                             <<Event("restore_props", CurrentMesh)>>)
             ELSE MeshSucceeded(ObjectsRemove(MeshesRemove(r.scene, orig_data), ReceiverId),
                                CurrentMesh, <<Event("restore_props", CurrentMesh)>>)
    /\ UNCHANGED <<pre, runVars, pipeVars>>

-----------------------------------------------------------------------------
(* Step 4: _apply_pose_to_armature *)

\* bpy.ops.pose.armature_apply: the current pose becomes the rest pose and the
\* current pose is reset
ArmatureApply(w, arm) ==
    [w EXCEPT !.armatures[arm[1]].rest = w.armatures[arm[1]].pose,
              !.armatures[arm[1]].pose = "IDENT"]

PoseOutcomes == {"ok", "fail"}

\* the selection and mode set-up of lines 672-676
EnterPoseMode(w, arm) ==
    LET w1 == IF CanModeSet(w, "OBJECT") THEN ModeSet(w, "OBJECT") ELSE w
        w2 == [w1 EXCEPT !.selected = {arm}, !.active = arm]
    IN ModeSet(w2, "POSE")

ApplyPoseToArmature ==
    /\ pc = "pose"
    /\ \E ms \in ModeSetOutcomes, po \in PoseOutcomes, cl \in ModeSetOutcomes :
          IF ms = "fail"
          THEN \* mode_set raises outside the try block: handled by execute()
               /\ po = "ok"
               /\ Unexpected(scene, Exc("ModeSetFailed", NoneId, ""), cl, <<>>)
               /\ UNCHANGED mesh_index
          ELSE IF po = "fail"
          THEN /\ cl = "ok"
               /\ Cancelled(EnterPoseMode(scene, armature), "ERROR", "PoseFailed", <<>>,
                            Exc("PoseFailed", NoneId, ""),
                            <<Event("armature_apply_failed", armature)>>)
               /\ UNCHANGED mesh_index
          ELSE /\ cl = "ok"
               /\ scene' = ArmatureApply(EnterPoseMode(scene, armature), armature)
               /\ pc' = "restore"
               /\ mesh_index' = 1
               /\ trace' = Append(trace, Event("armature_apply", armature))
               /\ UNCHANGED <<result, reports, raised>>
    /\ UNCHANGED <<pre, runVars, processed_meshes, original_objects, pipeVars>>

-----------------------------------------------------------------------------
(* Step 5: _restore_all_data, one mesh per step *)

RestoreMesh ==
    /\ pc = "restore"
    /\ LET obj == processed_meshes[mesh_index]
           mod_data == saved_armature_modifiers[obj]
           needed == IF mod_data = <<>> THEN 0 ELSE MovesNeeded(scene, obj, mod_data)
           canFail == driver_states[obj] /\ HasShapeKeys(scene, original_objects[obj])
       IN \E moved \in 0..(IF needed > 0 THEN needed ELSE 0), dout \in DriverOutcomes :
             /\ (~canFail => dout = "ok")
             /\ scene' = restore_drivers(
                             create_armature_modifier(scene, obj, mod_data, moved),
                             obj, driver_states[obj], original_objects[obj], dout)
             /\ trace' = trace \o <<Event("create_modifier", obj)>>
                                \o (IF moved < needed THEN <<Event("move_failed", obj)>>
                                    ELSE <<>>)
                                \o <<Event("restore_drivers", obj)>>
    /\ mesh_index' = IF mesh_index < Len(processed_meshes) THEN mesh_index + 1 ELSE 1
    /\ pc' = IF mesh_index < Len(processed_meshes) THEN "restore" ELSE "finalize"
    /\ UNCHANGED <<pre, result, reports, raised, runVars, processed_meshes,
                   original_objects, pipeVars>>

-----------------------------------------------------------------------------
(* Step 6: _finalize_operation *)

finalize_state(w, st, arm) ==
    LET w1 == IF CanModeSet(w, "OBJECT") THEN ModeSet(w, "OBJECT") ELSE w
        w2 == [w1 EXCEPT !.active = arm]
    IN IF st.mode = "POSE" THEN ModeSet(w2, "POSE") ELSE w2

FinalizeOperation ==
    /\ pc = "finalize"
    /\ \E ms \in ModeSetOutcomes, cl \in ModeSetOutcomes :
          IF ms = "fail"
          THEN Unexpected(scene, Exc("ModeSetFailed", NoneId, ""), cl, <<>>)
          ELSE /\ cl = "ok"
               /\ scene' = finalize_state(scene, original_state[1], armature)
               /\ reports' = Append(reports, Report("INFO", "Applied", <<armature[1]>>))
               /\ result' = "FINISHED"
               /\ pc' = "done"
               /\ trace' = Append(trace, Event("finalized", armature))
               /\ UNCHANGED raised
    /\ UNCHANGED <<pre, runVars, loopVars, pipeVars>>

-----------------------------------------------------------------------------

Next ==
    \/ InitializeAndValidate
    \/ CollectAndStoreData
    \/ ProcessNoShapeKeys
    \/ CreateReceiver
    \/ DonorBake
    \/ DonorTransfer
    \/ CommitReplace
    \/ CommitRestore
    \/ ApplyPoseToArmature
    \/ RestoreMesh
    \/ FinalizeOperation

Spec == Init /\ [][Next]_vars

-----------------------------------------------------------------------------
(* Vocabulary of the properties *)

MeshIds == {ObjId(MeshNames[i]) : i \in DOMAIN MeshNames}
Target == get_armature(pre)
Finished == pc = "done"
LastReport == reports[Len(reports)]
KeyNamesOf(w, id) == [i \in 1..Len(MeshOf(w, id).keys) |-> MeshOf(w, id).keys[i].name]
ProxiesIn(w) == {id \in DOMAIN w.objects : IsProxy(id)}
ProxiesOf(w, mesh) == {id \in ProxiesIn(w) : id[1] = mesh[1]}
Happened(ev) == \E i \in DOMAIN trace : trace[i].ev = ev

\* number of deformer entries of a mesh bound to a skeleton
BoundCount(w, id, arm) ==
    Cardinality({i \in DOMAIN w.objects[id].modifiers :
                    /\ w.objects[id].modifiers[i].type = "ARMATURE"
                    /\ w.objects[id].modifiers[i].object = arm})

\* a shape-altering deformer sits before a deformer bound to the skeleton
ShapeAlteringBefore(w, id, arm) ==
    LET mods == w.objects[id].modifiers
    IN \E i, j \in DOMAIN mods :
          /\ i < j
          /\ mods[i].type \in deformation_mods
          /\ mods[j].type = "ARMATURE" /\ mods[j].object = arm

Flagged(id) == BoundCount(pre, id, Target) = 1 /\ ShapeAlteringBefore(pre, id, Target)
FlaggedNames ==
    LET idx == Ascending({i \in DOMAIN MeshNames : Flagged(ObjId(MeshNames[i]))})
    IN [i \in 1..Len(idx) |-> MeshNames[idx[i]]]
MultiMeshes == {id \in MeshIds : BoundCount(pre, id, Target) >= 2}

\* geometry, shape-key list and modifier stack of a mesh are what they were
\* when the run started
MeshUnmodified(id) ==
    /\ scene.objects[id].modifiers = pre.objects[id].modifiers
    /\ MeshOf(scene, id).geom = MeshOf(pre, id).geom
    /\ MeshOf(scene, id).verts = MeshOf(pre, id).verts
    /\ MeshOf(scene, id).keys = MeshOf(pre, id).keys

\* nothing of the user's scene was touched: meshes, shape keys, drivers, modifier
\* stacks, skeletons, and no proxy exists
NothingMutated ==
    /\ scene.objects = pre.objects
    /\ scene.meshes = pre.meshes
    /\ scene.armatures = pre.armatures

-----------------------------------------------------------------------------
(* C1..C10 *)

\* C1 (as claimed): a mesh that had N >= 1 shape keys has, once its bake has
\* succeeded, the same shape-key names in the same order (index 0 included).
C1_KeyCountRoundTrip ==
    \A id \in Range(processed_meshes) :
        HasShapeKeys(pre, id) => KeyNamesOf(scene, id) = KeyNamesOf(pre, id)

\* C2 (as claimed): after a run that returned FINISHED, every affected mesh that
\* had shape-key drivers holds a copy of each of them (same count, same paths).
C2_DriversPreserved ==
    result = "FINISHED" =>
        \A id \in Range(affected_meshes) :
            check_drivers_exist(pre, id) =>
                /\ Len(MeshOf(scene, id).drivers) = Len(MeshOf(pre, id).drivers)
                /\ \A i \in DOMAIN MeshOf(pre, id).drivers :
                      MeshOf(scene, id).drivers[i].data_path
                          = MeshOf(pre, id).drivers[i].data_path

\* C3 (as claimed): after a run that returned FINISHED, a mesh that had a driver
\* whose variable target was the mesh itself has a restored driver, and that
\* driver's target is the mesh object itself, not a proxy or a deleted object.
C3_DriverRetarget ==
    result = "FINISHED" =>
        \A id \in Range(affected_meshes) :
            (\E i \in DOMAIN MeshOf(pre, id).drivers : MeshOf(pre, id).drivers[i].target = id)
            => /\ MeshOf(scene, id).drivers # <<>>
               /\ \A i \in DOMAIN MeshOf(scene, id).drivers :
                     LET t == MeshOf(scene, id).drivers[i].target
                     IN ~IsProxy(t) /\ t \in DOMAIN scene.objects
               /\ \E i \in DOMAIN MeshOf(scene, id).drivers :
                     MeshOf(scene, id).drivers[i].target = id

\* C4: when the run was aborted by a vertex-count mismatch of a donor of mesh m,
\* the geometry, shape-key list and modifier stack of m equal their values
\* before the run, and no proxy made from m is left.
C4_AtomicOnVertexMismatch ==
    (Finished /\ raised.kind = "VertexCountMismatch") =>
        /\ MeshUnmodified(raised.mesh)
        /\ scene.objects[raised.mesh].data = pre.objects[raised.mesh].data
        /\ ProxiesOf(scene, raised.mesh) = {}

\* C4 witness: the run was aborted by the mismatch of the donor of the second
\* key, after the first key had been transferred.
C4_Witness ==
    /\ Finished
    /\ raised.kind = "VertexCountMismatch"
    /\ shapekey_index = 2
    /\ successful_transfers = 1
    /\ Happened("join")

\* C5 (as claimed): whenever the bake of a mesh reported failure, that mesh is
\* unmodified: same geometry data, same shape keys, same modifier stack.
C5_NoPartialCommit ==
    (Finished /\ Happened("bake_failed")) =>
        /\ MeshUnmodified(raised.mesh)
        /\ scene.objects[raised.mesh].data = pre.objects[raised.mesh].data

\* C6: whenever process_shape_keys_with_pose is not executing (it has returned,
\* on any exit path, or has not been entered), the scene holds no proxy object.
C6_ScopedProxyCleanup ==
    pc \notin {"donor_bake", "donor_transfer", "commit_replace", "commit_restore"}
        => ProxiesIn(scene) = {}

\* C6 witness: the bake left through the transfer-verification error after a
\* receiver and a donor had been created.
C6_Witness ==
    /\ Finished
    /\ raised.kind = "TransferVerification"
    /\ Happened("receiver") /\ Happened("donor")
    /\ ProxiesIn(scene) = {}

\* C7 (as claimed): every shape key of a successfully baked mesh has the value,
\* slider_min, slider_max, mute, interpolation and vertex_group it had before.
C7_MetadataFidelity ==
    \A id \in Range(processed_meshes) :
        \A k \in DOMAIN MeshOf(scene, id).keys :
            k \in DOMAIN MeshOf(pre, id).keys =>
                LET a == MeshOf(scene, id).keys[k]
                    b == MeshOf(pre, id).keys[k]
                IN /\ a.value = b.value
                   /\ a.slider_min = b.slider_min
                   /\ a.slider_max = b.slider_max
                   /\ a.mute = b.mute
                   /\ a.interpolation = b.interpolation
                   /\ a.vertex_group = b.vertex_group

\* the run ended in the deformer-order error listing every flagged mesh, with
\* nothing mutated
OrderRejected ==
    /\ Finished
    /\ result = "CANCELLED"
    /\ reports = <<Report("ERROR", "DeformerOrder", FlaggedNames)>>
    /\ NothingMutated
    /\ ~Happened("armature_apply")

\* C8 (as claimed): if some mesh with exactly one deformer bound to the skeleton
\* has a shape-altering deformer before it, the run aborts with the
\* deformer-order error listing all flagged meshes, and nothing is mutated.
C8_OrderingRejection_AsClaimed ==
    (pc # "start" /\ \E id \in MeshIds : Flagged(id)) => OrderRejected

\* C8 (amended): the same, provided no mesh has two or more deformers bound to
\* the skeleton; if one has, nothing is mutated either.
C8_OrderingRejection ==
    (pc # "start" /\ \E id \in MeshIds : Flagged(id)) =>
        /\ MultiMeshes = {} => OrderRejected
        /\ Finished /\ result = "CANCELLED" /\ NothingMutated

\* C8 witness: both meshes are flagged and the error names both.
C8_Witness ==
    /\ Finished
    /\ Len(FlaggedNames) = 2
    /\ reports = <<Report("ERROR", "DeformerOrder", FlaggedNames)>>

\* first mesh, in the order of bpy.data.objects, with two or more bound deformers
FirstMultiName ==
    MeshNames[CHOOSE i \in DOMAIN MeshNames :
                 /\ ObjId(MeshNames[i]) \in MultiMeshes
                 /\ \A j \in 1..(i - 1) : ObjId(MeshNames[j]) \notin MultiMeshes]

\* C9: if a mesh has two or more deformers bound to the target skeleton, the
\* run ends CANCELLED with the multiple-deformers error naming such a mesh (the
\* first one met), and no mesh, modifier stack or skeleton is mutated.
C9_MultipleDeformerRejection ==
    (pc # "start" /\ MultiMeshes # {}) =>
        /\ Finished
        /\ result = "CANCELLED"
        /\ reports = <<Report("ERROR", "MultipleDeformers", <<FirstMultiName>>)>>
        /\ NothingMutated
        /\ ~Happened("armature_apply")

\* C9 witness: validation rejected a scene in which the second mesh is the one
\* with two bound deformers and the first mesh is affected.
C9_Witness ==
    /\ Finished
    /\ MultiMeshes = {ObjId(MeshNames[2])}
    /\ BoundCount(pre, ObjId(MeshNames[1]), Target) = 1
    /\ raised.kind = "MultipleDeformers"

\* C10: when no mesh has a deformer bound to the target skeleton, the run ends
\* with one warning and no error, every mesh and the skeleton are unchanged,
\* and the rest-pose commit is not performed.
C10_EmptyAffectedNoOp ==
    (pc # "start" /\ \A id \in MeshIds : BoundCount(pre, id, Target) = 0) =>
        /\ Finished
        /\ reports = <<Report("WARNING", "NoMeshes", <<>>)>>
        /\ raised = NoRaise
        /\ result = "CANCELLED"
        /\ NothingMutated
        /\ scene.active = pre.active
        /\ ~Happened("armature_apply")

\* C10 witness: the warning was reported for a scene whose meshes carry deformers,
\* one of them bound to another skeleton.
C10_Witness ==
    /\ Finished
    /\ reports = <<Report("WARNING", "NoMeshes", <<>>)>>
    /\ \E id \in MeshIds : BoundCount(pre, id, Rig2Id) = 1 /\ Target = RigId

-----------------------------------------------------------------------------
(* C11..C20 *)

\* the mesh had no shape key and exactly one deformer bound to the skeleton
Degenerate(id) == ~HasShapeKeys(pre, id) /\ BoundCount(pre, id, Target) = 1

\* _restore_all_data has recreated the deformer of the mesh
Rebound(id) == \E i \in DOMAIN trace : trace[i] = Event("create_modifier", id)

\* a receiver or donor was made from the mesh at some point of the run
ProxyMade(id) ==
    \E i \in DOMAIN trace : trace[i].ev \in {"receiver", "donor"} /\ trace[i].obj[1] = id[1]

\* the geometry of the mesh as the run found it, deformed by the skeleton's
\* pose of that moment
DirectlyApplied(id) ==
    [MeshOf(pre, id).geom EXCEPT !.pose = pre.armatures[Target[1]].pose]

\* C11: for a mesh with no shape key and exactly one deformer bound to the
\* skeleton, no proxy is ever made; once its bake has returned the mesh has no
\* shape key, the same datablock, the geometry of the deformer applied directly
\* and (until _restore_all_data recreates it) no deformer bound to the skeleton.
C11_DegeneratePath ==
    \A id \in MeshIds :
        Degenerate(id) =>
            /\ ProxiesOf(scene, id) = {}
            /\ ~ProxyMade(id)
            /\ id \in Range(processed_meshes) =>
                  /\ MeshOf(scene, id).keys = <<>>
                  /\ scene.objects[id].data = pre.objects[id].data
                  /\ MeshOf(scene, id).geom = DirectlyApplied(id)
                  /\ ~Rebound(id) => BoundCount(scene, id, Target) = 0

\* C11 witness: the first mesh is on the degenerate path, its bake has
\* returned and the rest-pose commit is next.
C11_Witness ==
    /\ pc = "pose"
    /\ Degenerate(ObjId(MeshNames[1]))
    /\ ObjId(MeshNames[1]) \in Range(processed_meshes)
    /\ Happened("apply_direct")
    /\ BoundCount(scene, ObjId(MeshNames[1]), Target) = 0

\* the scenario of C12: keys [Basis, Smile, Frown], one deformer bound to the
\* skeleton at stack index 0, skeleton not in the identity pose
Scenario(id) ==
    /\ KeyNamesOf(pre, id) = <<"Basis", "Smile", "Frown">>
    /\ BoundCount(pre, id, Target) = 1
    /\ IsArmatureModFor(pre.objects[id].modifiers[1], Target)
    /\ pre.armatures[Target[1]].pose # "IDENT"

\* the run has ended and the skeleton's rest pose is its pose of before the run
RestCommitted ==
    /\ Finished
    /\ Target # NoneId
    /\ scene.armatures[Target[1]].rest = pre.armatures[Target[1]].pose

\* C12 (as claimed): in the scenario, at the end of the run that committed the
\* rest pose, the mesh has its 3 key names in the same order and zero deformers
\* bound to the skeleton.
C12_ScenarioEndState_AsClaimed ==
    \A id \in MeshIds :
        (RestCommitted /\ Scenario(id)) =>
            /\ KeyNamesOf(scene, id) = KeyNamesOf(pre, id)
            /\ BoundCount(scene, id, Target) = 0

\* C12 (amended): in the scenario the baked mesh has its 3 key names in the
\* same order; it has zero deformers bound to the skeleton from its bake until
\* _restore_all_data, and exactly one at the end of the run that committed the
\* rest pose.
C12_ScenarioEndState ==
    \A id \in MeshIds :
        Scenario(id) =>
            /\ (id \in Range(processed_meshes) /\ ~Rebound(id)) =>
                  /\ KeyNamesOf(scene, id) = KeyNamesOf(pre, id)
                  /\ BoundCount(scene, id, Target) = 0
            /\ RestCommitted =>
                  /\ KeyNamesOf(scene, id) = KeyNamesOf(pre, id)
                  /\ BoundCount(scene, id, Target) = 1
                  /\ Rebound(id)

\* C12 witness: the run of the scenario returned FINISHED with the rest pose
\* committed.
C12_Witness ==
    /\ RestCommitted
    /\ result = "FINISHED"
    /\ Scenario(ObjId(MeshNames[1]))
    /\ Len(MeshOf(scene, ObjId(MeshNames[1])).keys) = 3

\* positions in the run's record at which bpy.ops.pose.armature_apply was called
CommitCalls ==
    {i \in DOMAIN trace : trace[i].ev \in {"armature_apply", "armature_apply_failed"}}

\* the run ended because validation failed or the bake of a mesh failed
FailedBeforeCommit ==
    /\ Finished
    /\ \/ LastReport.kind \in {"NoArmature", "MultipleDeformers", "DeformerOrder",
                                "NoMeshes", "ProcessFailed"}
       \/ raised.kind \in {"ApplyFailed", "VertexCountMismatch", "TransferVerification",
                            "RestoreFailed"}

\* C13: bpy.ops.pose.armature_apply is called at most once in a run, and only
\* after the bake of every affected mesh has succeeded; in a run in which
\* validation or the bake of a mesh failed, the rest pose and the current pose
\* of every skeleton are at the end what they were at the start.
C13_CommitGating ==
    /\ Cardinality(CommitCalls) <= 1
    /\ \A i \in CommitCalls :
          /\ affected_meshes # <<>>
          /\ processed_meshes = affected_meshes
          /\ \A id \in Range(affected_meshes) :
                \E j \in 1..(i - 1) : trace[j] = Event("bake_done", id)
          /\ ~\E j \in 1..(i - 1) : trace[j].ev = "bake_failed"
    /\ FailedBeforeCommit => scene.armatures = pre.armatures

\* C13 witness: the bake of the first mesh succeeded, that of the second
\* failed, and the run has ended without a rest-pose commit.
C13_Witness ==
    /\ Finished
    /\ Happened("bake_done")
    /\ Happened("bake_failed")
    /\ CommitCalls = {}
    /\ scene.armatures = pre.armatures

\* the bake of the mesh was entered
BakeBegun(id) == \E i \in DOMAIN trace : trace[i] = Event("bake_begin", id)

\* position of the mesh whose bake failed among the affected meshes
FailedIndex == CHOOSE j \in DOMAIN affected_meshes : affected_meshes[j] = raised.mesh

\* the mesh is as its bake left it: baked geometry, no deformer bound to the
\* skeleton, no drivers, the other modifier entries as they were
PostBakeState(id) ==
    /\ BoundCount(scene, id, armature) = 0
    /\ ~Rebound(id)
    /\ MeshOf(scene, id).geom.pose = pre.armatures[armature[1]].pose
    /\ MeshOf(scene, id).drivers = <<>>
    /\ Len(scene.objects[id].modifiers) = Len(pre.objects[id].modifiers) - 1

\* C14 (as claimed): when the bake of the j-th affected mesh fails the run is
\* cancelled, the bake of no later mesh is entered, mesh j is unmodified, and
\* every earlier mesh stays in its post-bake state.
C14_FirstFailureAbort ==
    (Finished /\ raised.mesh # NoneId) =>
        /\ result = "CANCELLED"
        /\ CommitCalls = {}
        /\ MeshUnmodified(raised.mesh)
        /\ scene.objects[raised.mesh].data = pre.objects[raised.mesh].data
        /\ \A k \in DOMAIN affected_meshes :
              /\ k > FailedIndex =>
                    /\ ~BakeBegun(affected_meshes[k])
                    /\ MeshUnmodified(affected_meshes[k])
              /\ k < FailedIndex => PostBakeState(affected_meshes[k])

\* C15 (as claimed): when the donor of key k fails the vertex-count validation
\* or the transfer verification, the message reported to the user on abort
\* identifies that kind of error and names key k.
C15_SpecificErrorSurfaces ==
    (Finished /\ raised.kind \in {"VertexCountMismatch", "TransferVerification"}) =>
        /\ LastReport.kind = raised.kind
        /\ raised.key \in Range(LastReport.names)

\* the run was aborted after _initialize_and_validate had recorded the mode and
\* the active object: validation error, failed bake, failed rest-pose commit or
\* unexpected exception
AbortAfterCapture ==
    /\ Finished
    /\ result = "CANCELLED"
    /\ original_state # <<>>
    /\ \/ raised.kind # ""
       \/ LastReport.kind \in {"ProcessFailed", "PoseFailed", "ErrorOccurred"}

\* C16 (as claimed): on every abort after the original state was recorded,
\* _handle_error_cleanup is run (the attempt to restore the mode and the active
\* object) before CANCELLED is returned.
C16_RestoreOnAbort ==
    AbortAfterCapture => Happened("error_cleanup")

\* C17 (as claimed): after a run that returned FINISHED, context.mode is the
\* mode recorded at the start of the run, whatever mode that was.
C17_ModeRoundTrip ==
    result = "FINISHED" => ContextMode(scene) = original_state[1].mode

\* modifier_apply changed the topology of the mesh or of a proxy made from it
TopologyAltered(id) ==
    \E i \in DOMAIN trace : trace[i].ev = "topology_altered" /\ trace[i].obj[1] = id[1]

\* C18: a mesh whose bake has succeeded, with a deformer that did not alter the
\* topology, has the number of vertices it had before the bake, and every shape
\* key of the result has that many elements.
C18_VertexCountInvariant ==
    \A id \in Range(processed_meshes) :
        ~TopologyAltered(id) =>
            /\ MeshOf(scene, id).verts = MeshOf(pre, id).verts
            /\ \A k \in DOMAIN MeshOf(scene, id).keys :
                  MeshOf(scene, id).keys[k].size = MeshOf(pre, id).verts

\* C18 witness: a mesh with three shape keys was baked through two transfers
\* without a change of topology.
C18_Witness ==
    /\ pc = "pose"
    /\ ObjId(MeshNames[1]) \in Range(processed_meshes)
    /\ ~TopologyAltered(ObjId(MeshNames[1]))
    /\ Len(MeshOf(pre, ObjId(MeshNames[1])).keys) = 3
    /\ Len(MeshOf(scene, ObjId(MeshNames[1])).keys) = 3
    /\ MeshOf(scene, ObjId(MeshNames[1])).geom.pose # ""

\* a modifier_move_up call failed while the deformer of the mesh was recreated
MoveFailed(id) == \E i \in DOMAIN trace : trace[i] = Event("move_failed", id)

\* 1-based stack position the deformer bound to the skeleton had before the run
BoundIndex(id) == ArmatureModIndices(pre, id, Target)[1]

\* C19: after a run that returned FINISHED, every processed mesh for which no
\* move failed has exactly one deformer bound to the skeleton, with the stored
\* name and settings, at the stack index it had before the run, and its other
\* modifier entries are the same entries in the same order as before.
C19_ModifierStackRoundTrip ==
    result = "FINISHED" =>
        \A id \in Range(processed_meshes) :
            ~MoveFailed(id) =>
                LET mods == scene.objects[id].modifiers
                    old == pre.objects[id].modifiers
                IN /\ BoundCount(scene, id, Target) = 1
                   /\ Len(mods) = Len(old)
                   /\ IsArmatureModFor(mods[BoundIndex(id)], Target)
                   /\ mods[BoundIndex(id)].name = old[BoundIndex(id)].name
                   /\ mods[BoundIndex(id)].settings = old[BoundIndex(id)].settings
                   /\ SeqRemoveAt(mods, BoundIndex(id)) = SeqRemoveAt(old, BoundIndex(id))

\* C19 witness: a run returned FINISHED for a mesh whose deformer was first of
\* two entries, so that the recreated entry had to be moved up.
C19_Witness ==
    /\ result = "FINISHED"
    /\ ObjId(MeshNames[1]) \in Range(processed_meshes)
    /\ Len(pre.objects[ObjId(MeshNames[1])].modifiers) = 2
    /\ BoundIndex(ObjId(MeshNames[1])) = 1
    /\ ~MoveFailed(ObjId(MeshNames[1]))
    /\ scene.objects[ObjId(MeshNames[1])].modifiers = pre.objects[ObjId(MeshNames[1])].modifiers

\* number of donors of the mesh joined into its receiver before position i of
\* the run's record
JoinsBefore(id, i) ==
    Cardinality({j \in 1..(i - 1) : trace[j].ev = "join" /\ trace[j].obj[1] = id[1]})

\* C20: while the receiver and the donors of a mesh are being baked, transferred
\* and validated, no object of the user's scene is written (every mesh not yet
\* baked, and every skeleton, is what it was at the start of the run); the
\* replacement of the mesh's data happens only after all N-1 transfers.
C20_SingleCommitPoint ==
    /\ pc \in {"mesh", "donor_bake", "donor_transfer", "commit_replace"} =>
          /\ \A id \in MeshIds \ Range(processed_meshes) :
                /\ scene.objects[id] = pre.objects[id]
                /\ id \in DOMAIN scene.meshes
                /\ scene.meshes[id] = pre.meshes[id]
          /\ \A a \in Range(ArmatureNames) : scene.objects[ObjId(a)] = pre.objects[ObjId(a)]
          /\ scene.armatures = pre.armatures
    /\ pc \in {"commit_replace", "commit_restore"} =>
          /\ shapekey_names = KeyNamesOf(pre, CurrentMesh)
          /\ successful_transfers = Len(shapekey_names) - 1
    /\ \A i \in DOMAIN trace :
          trace[i].ev = "replace" =>
              /\ JoinsBefore(trace[i].obj, i) = Len(MeshOf(pre, trace[i].obj).keys) - 1
              /\ \E j \in 1..(i - 1) : trace[j] = Event("receiver", trace[i].obj)

\* C20 witness: both donors of a mesh with three shape keys have been
\* transferred and the mesh itself is still untouched, at the commit point.
C20_Witness ==
    /\ pc = "commit_replace"
    /\ Len(shapekey_names) = 3
    /\ successful_transfers = 2
    /\ MeshUnmodified(CurrentMesh)
    /\ Len(MeshOf(scene, ReceiverId).keys) = 3

-----------------------------------------------------------------------------
(* C21..C27 *)

\* tags (key indices) of the donors made from the mesh, in the order of the
\* run's record
DonorPositions(id) ==
    Ascending({i \in DOMAIN trace : trace[i].ev = "donor" /\ trace[i].obj[1] = id[1]})

\* C21 (as claimed): the donors of a mesh are made for k = 1, 2, ... in this
\* order; after k transfers the receiver has exactly k keys beyond the basis and
\* its key at index j carries the name of the original key j, 1 <= j <= k; a
\* transfer after which the receiver has no keys or another count ends the run
\* with the transfer-verification error, no later key being processed.
C21_ReceiverLoop ==
    /\ pc \in {"donor_bake", "donor_transfer", "commit_replace"} =>
          LET rk == MeshOf(scene, ReceiverId).keys
              dp == DonorPositions(CurrentMesh)
              k == successful_transfers
          IN /\ shapekey_index = k + 1
             /\ Len(dp) = IF pc = "donor_transfer" THEN k + 1 ELSE k
             /\ \A i \in DOMAIN dp : trace[dp[i]].obj[2] = i
             /\ k = 0 => rk = <<>>
             /\ k > 0 => /\ Len(rk) = k + 1
                         /\ \A j \in 1..k : rk[j + 1].name = KeyNamesOf(pre, CurrentMesh)[j + 1]
    /\ raised.kind = "TransferVerification" =>
          /\ Finished /\ result = "CANCELLED"
          /\ raised.key = shapekey_names[shapekey_index + 1]
          /\ Len(DonorPositions(raised.mesh)) = shapekey_index

\* positions of the run's record at which step `ev` was done for the mesh
StepsOf(ev, id) == {i \in DOMAIN trace : trace[i] = Event(ev, id)}

\* C22: a deformer is recreated and drivers are restored only after the
\* rest-pose commit has succeeded and only for processed meshes; for each mesh
\* the deformer is recreated before the drivers are restored; once the restore
\* step is over each processed mesh was restored exactly once.
C22_RestorationOrdering ==
    \A id \in MeshIds :
        LET created == StepsOf("create_modifier", id)
            restored == StepsOf("restore_drivers", id)
        IN /\ Cardinality(created) <= 1
           /\ Cardinality(restored) <= 1
           /\ \A i \in created \cup restored :
                 /\ id \in Range(processed_meshes)
                 /\ \E j \in 1..(i - 1) : trace[j] = Event("bake_done", id)
                 /\ \E j \in 1..(i - 1) : trace[j].ev = "armature_apply"
           /\ \A i \in restored : \E j \in created : j < i
           /\ (pc \in {"finalize", "done"} /\ Happened("armature_apply")
                   /\ id \in Range(processed_meshes)) =>
                 /\ Cardinality(created) = 1
                 /\ Cardinality(restored) = 1

\* C22 witness: a run over two meshes returned FINISHED, both restored.
C22_Witness ==
    /\ result = "FINISHED"
    /\ Len(processed_meshes) = 2
    /\ \A id \in Range(processed_meshes) : StepsOf("restore_drivers", id) # {}

\* C23: when bpy.ops.pose.armature_apply fails after every affected mesh was
\* baked, the run returns CANCELLED, every affected mesh is in its post-bake
\* state (baked geometry, no deformer bound to the skeleton, drivers not
\* restored) and the rest pose of the skeleton is unchanged.
C23_CommitFailureWindow ==
    (Finished /\ raised.kind = "PoseFailed") =>
        /\ result = "CANCELLED"
        /\ LastReport = Report("ERROR", "PoseFailed", <<>>)
        /\ processed_meshes = affected_meshes
        /\ \A id \in Range(affected_meshes) : PostBakeState(id)
        /\ scene.armatures[armature[1]].rest = pre.armatures[armature[1]].rest

\* C23 witness: the commit failed after two meshes were baked, one of which
\* had shape-key drivers.
C23_Witness ==
    /\ Finished
    /\ raised.kind = "PoseFailed"
    /\ Len(affected_meshes) = 2
    /\ \E id \in Range(affected_meshes) : check_drivers_exist(pre, id)

\* C24 (as claimed): the restoration of the shape-key metadata of a mesh is
\* never followed by the failure of that mesh's bake, and never ends the run
\* as CANCELLED through it.
C24_MetadataErrorsNeverAbort ==
    \A i \in DOMAIN trace :
        trace[i].ev = "restore_props" =>
            ~(i < Len(trace) /\ trace[i + 1] = Event("bake_failed", trace[i].obj))

\* name of the key that was the relative key of key k of the mesh before the run
RelativeNameBefore(id, k) ==
    MeshOf(pre, id).keys[MeshOf(pre, id).keys[k].relative_key].name

\* C25: for every key of a baked mesh whose relative key was the key named R,
\* the relative key is the key named R of the rebuilt list when there is one,
\* and the host default (the basis key) when there is none.
C25_RelativeKeyLinkage ==
    \A id \in Range(processed_meshes) :
        LET keys == MeshOf(scene, id).keys
        IN \A k \in DOMAIN keys :
              k \in DOMAIN MeshOf(pre, id).keys =>
                  IF \E j \in DOMAIN keys : keys[j].name = RelativeNameBefore(id, k)
                  THEN keys[keys[k].relative_key].name = RelativeNameBefore(id, k)
                  ELSE keys[k].relative_key = NewKeyBlock("", "", 0).relative_key

\* C25 witness: the third key of a baked mesh was relative to its second key
\* and is again.
C25_Witness ==
    /\ ObjId(MeshNames[1]) \in Range(processed_meshes)
    /\ Len(MeshOf(pre, ObjId(MeshNames[1])).keys) = 3
    /\ MeshOf(pre, ObjId(MeshNames[1])).keys[3].relative_key = 2
    /\ Len(MeshOf(scene, ObjId(MeshNames[1])).keys) = 3
    /\ MeshOf(scene, ObjId(MeshNames[1])).keys[3].relative_key = 2

\* the modifier types the ordering check is about
ShapeAlteringTypes ==
    {"MESH_DEFORM", "LATTICE", "CLOTH", "SOFT_BODY", "MESH_CACHE", "SURFACE_DEFORM",
     "VOLUME_DEFORM", "NODES", "DISPLACE", "WAVE", "SHRINKWRAP", "SIMPLE_DEFORM"}

\* a modifier of a shape-altering type sits at a stack index strictly lower
\* than that of the deformer bound to the skeleton
FlagExpected(w, id, arm) ==
    LET mods == w.objects[id].modifiers
    IN \E i, j \in DOMAIN mods :
          /\ i < j
          /\ mods[i].type \in ShapeAlteringTypes
          /\ mods[j].type = "ARMATURE" /\ mods[j].object = arm

\* the run was ended by the deformer-order error and its message names the mesh
NamedInOrderError(id) ==
    /\ reports # <<>>
    /\ reports[1].kind = "DeformerOrder"
    /\ id[1] \in Range(reports[1].names)

\* C26: a mesh (with at most one deformer bound to the target skeleton) is
\* flagged by has_modifier_order_issue exactly when a modifier of a
\* shape-altering type sits before that deformer; and, once validate_objects
\* has run and got as far as the order error, the mesh is named in that error
\* exactly in that case.
C26_OrderingFlagPredicate ==
    (pc \in {"start", "collect", "done"} /\ Target # NoneId) =>
        \A id \in MeshIds :
            BoundCount(pre, id, Target) <= 1 =>
                /\ has_modifier_order_issue(scene, id, Target)
                      <=> FlagExpected(scene, id, Target)
                /\ (pc # "start" /\ MultiMeshes = {}) =>
                      (NamedInOrderError(id) <=> FlagExpected(pre, id, Target))

\* C26 witness: a mesh with a shrinkwrap modifier before its deformer was
\* rejected by name.
C26_Witness ==
    /\ Finished
    /\ NamedInOrderError(ObjId(MeshNames[1]))
    /\ Len(pre.objects[ObjId(MeshNames[1])].modifiers) = 2
    /\ pre.objects[ObjId(MeshNames[1])].modifiers[1].type = "SHRINKWRAP"

\* C27: a mesh without a deformer bound to the target skeleton is never among
\* the affected or processed meshes, nothing is stored for it, no step of the
\* run is done for it, no proxy is made from it, and its modifier stack,
\* datablock, geometry, shape keys with their metadata and drivers stay what
\* they were, in every state of every run.
C27_UnaffectedFramedOut ==
    \A id \in MeshIds :
        BoundCount(pre, id, Target) = 0 =>
            /\ id \notin Range(affected_meshes)
            /\ id \notin Range(processed_meshes)
            /\ id \notin DOMAIN driver_states
            /\ id \notin DOMAIN saved_armature_modifiers
            /\ \A i \in DOMAIN trace : trace[i].obj[1] # id[1]
            /\ ProxiesOf(scene, id) = {}
            /\ scene.objects[id].modifiers = pre.objects[id].modifiers
            /\ scene.objects[id].data = pre.objects[id].data
            /\ MeshOf(scene, id) = MeshOf(pre, id)

\* C27 witness: a run returned FINISHED for the first mesh while the second,
\* which has shape keys and a driver and is deformed by the other skeleton,
\* was left out.
C27_Witness ==
    /\ result = "FINISHED"
    /\ Target = RigId
    /\ ObjId(MeshNames[1]) \in Range(processed_meshes)
    /\ BoundCount(pre, ObjId(MeshNames[2]), Rig2Id) = 1
    /\ check_drivers_exist(pre, ObjId(MeshNames[2]))
    /\ MeshOf(scene, ObjId(MeshNames[2])) = MeshOf(pre, ObjId(MeshNames[2]))

====
